---- MODULE Spec2Model ----
(***************************************************************************)
(* Model of api/index.py: the /chat conversation engine of the requisition *)
(* bot.  A session walks through FORM_FIELDS, the Supplier Preference      *)
(* field is resolved against the supplier_details table, and a completed   *)
(* form is inserted into the requisitions table on "save".                 *)
(*                                                                         *)
(* Text is modelled as a sequence of one-character strings, so that        *)
(* str.strip(), str.lower() and SQL ILIKE are computed, not assumed.       *)
(***************************************************************************)
EXTENDS Integers, Sequences, FiniteSets, TLC

VARIABLES
    user_state,        \* index.py:47  session id -> conversation state (a dict)
    requisitions,      \* the requisitions table: sequence of inserted rows
    supplier_details,  \* the supplier_details table (never written by the app)
    vocabulary,        \* the messages the clients of this run send
    requests,          \* number of /chat requests received so far
    inflight,          \* requests being handled: slot -> handler position and locals
    epoch,             \* user_state and requisitions when the requests in flight began,
                       \* and the number of requests received since
    last               \* the request answered last, with what it found

vars == <<user_state, requisitions, supplier_details, vocabulary, requests, inflight,
          epoch, last>>

----------------------------------------------------------------------------
(* Bounds of the model                                                     *)

MaxRequests == 8

\* the number of requests followed in the run whose clients fill two forms
LongRun == 15

Sessions == {"s1"}

OverlappingSessions == {"s1", "s2"}

----------------------------------------------------------------------------
(* Text: str.strip(), str.lower(), ILIKE                                   *)

UpperCase == <<"A","B","C","D","E","F","G","H","I","J","K","L","M",
               "N","O","P","Q","R","S","T","U","V","W","X","Y","Z">>

LowerCase == <<"a","b","c","d","e","f","g","h","i","j","k","l","m",
               "n","o","p","q","r","s","t","u","v","w","x","y","z">>

Whitespace == {" ", "\t", "\n", "\r"}

\* the lower-case letter of each capital
LowerOf ==
    [c \in {UpperCase[i] : i \in DOMAIN UpperCase} |->
        LowerCase[CHOOSE i \in DOMAIN UpperCase : UpperCase[i] = c]]

LowerChar(c) == IF c \in DOMAIN LowerOf THEN LowerOf[c] ELSE c

\* str.lower()
Lower(s) == [i \in DOMAIN s |-> LowerChar(s[i])]

RECURSIVE LStrip(_)
LStrip(s) ==
    IF s # <<>> /\ Head(s) \in Whitespace THEN LStrip(Tail(s)) ELSE s

RECURSIVE RStrip(_)
RStrip(s) ==
    IF s # <<>> /\ s[Len(s)] \in Whitespace
    THEN RStrip(SubSeq(s, 1, Len(s) - 1))
    ELSE s

\* str.strip()
Strip(s) == RStrip(LStrip(s))

\* PostgreSQL  str ILIKE pat : "%" matches any run of characters, "_" any one
\* character, a backslash quotes the next character; letters match without
\* regard to case.
RECURSIVE Like(_, _)
Like(str, pat) ==
    IF pat = <<>> THEN str = <<>>
    ELSE IF Head(pat) = "%"
         THEN \/ Like(str, Tail(pat))
              \/ str # <<>> /\ Like(Tail(str), pat)
    ELSE IF Head(pat) = "_"
         THEN str # <<>> /\ Like(Tail(str), Tail(pat))
    ELSE IF Head(pat) = "\\" /\ Len(pat) >= 2
         THEN str # <<>> /\ Head(str) = pat[2] /\ Like(Tail(str), Tail(Tail(pat)))
    ELSE str # <<>> /\ Head(str) = Head(pat) /\ Like(Tail(str), Tail(pat))

ILike(str, pat) == Like(Lower(str), Lower(pat))

\* ORDER BY name: character-wise comparison
CharRank(c) ==
    IF \E i \in DOMAIN LowerCase : LowerCase[i] = LowerChar(c)
    THEN CHOOSE i \in DOMAIN LowerCase : LowerCase[i] = LowerChar(c)
    ELSE 0

RECURSIVE NameBefore(_, _)
NameBefore(a, b) ==
    IF a = <<>> THEN b # <<>>
    ELSE IF b = <<>> THEN FALSE
    ELSE IF CharRank(Head(a)) # CharRank(Head(b))
         THEN CharRank(Head(a)) < CharRank(Head(b))
    ELSE NameBefore(Tail(a), Tail(b))

RECURSIVE OrderByName(_)
OrderByName(names) ==
    IF names = {} THEN <<>>
    ELSE LET first == CHOOSE n \in names : \A m \in names \ {n} : NameBefore(n, m)
         IN  <<first>> \o OrderByName(names \ {first})

----------------------------------------------------------------------------
(* Constants of the program                                                *)

FORM_FIELDS ==
    << "Requester Information", "Item/Service Details", "Business Justification",
       "Required By Date", "Supplier Preference", "Approval Section" >>

SUPPLIER_CHECK_STATE == "AWAITING_SUPPLIER_CHOICE"

\* special_state is None
NoSpecialState == "None"

RestartWords == { <<"s","t","a","r","t">>, <<"r","e","s","t","a","r","t">>,
                  <<"e","d","i","t">> }

SkipWords == { <<"s","k","i","p">>, <<"n","o","n","e">>,
               <<"n","o"," ","p","r","e","f","e","r","e","n","c","e">>,
               <<"b","l","a","n","k">> }

SaveWord == <<"s","a","v","e">>

NotApplicable == <<"N","/","A">>

\* FORM_FIELDS[i] with Python's 0-based index
Field(i) == FORM_FIELDS[i + 1]

\* FORM_FIELDS.index("Supplier Preference")
FORM_FIELDS_SupplierIndex ==
    (CHOOSE i \in DOMAIN FORM_FIELDS : FORM_FIELDS[i] = "Supplier Preference") - 1

----------------------------------------------------------------------------
(* form_data: a Python dict, kept in insertion order                       *)

DictKeys(d) == { d[i].key : i \in DOMAIN d }

DictHas(d, k) == k \in DictKeys(d)

\* d[k] = v : an existing key keeps its place, a new key is appended
DictSet(d, k, v) ==
    IF DictHas(d, k)
    THEN [i \in DOMAIN d |-> IF d[i].key = k THEN [key |-> k, val |-> v] ELSE d[i]]
    ELSE Append(d, [key |-> k, val |-> v])

\* d.get(k) : <<v>> when present, <<>> for None
DictGet(d, k) ==
    IF DictHas(d, k)
    THEN << d[CHOOSE i \in DOMAIN d : d[i].key = k].val >>
    ELSE << >>

----------------------------------------------------------------------------
(* Replies of /chat                                                        *)

NoText == << >>

Reply(status, kind, field, name, suppliers, summary) ==
    [ status |-> status, kind |-> kind, field |-> field, name |-> name,
      suppliers |-> suppliers, summary |-> summary ]

\* index.py:74
HelloReply == Reply(200, "hello", Field(0), NoText, <<>>, <<>>)

\* index.py:141
StartOverReply == Reply(200, "start_over", Field(0), NoText, <<>>, <<>>)

\* index.py:113 and 132
DatabaseErrorReply(text) == Reply(500, "database_error", "", text, <<>>, <<>>)

\* index.py:195
ListErrorReply == Reply(500, "list_error", "", NoText, <<>>, <<>>)

\* index.py:212
SavedReply == Reply(200, "saved", "", NoText, <<>>, <<>>)

\* index.py:215
SaveErrorReply == Reply(500, "save_error", "", NoText, <<>>, <<>>)

\* index.py:68
BadRequestReply == Reply(400, "bad_request", "", NoText, <<>>, <<>>)

NoReply == Reply(0, "none", "", NoText, <<>>, <<>>)

----------------------------------------------------------------------------
(* The two tables                                                          *)

SupplierRow(name, address, contact_number, is_blacklisted) ==
    [ name |-> name, address |-> address, contact_number |-> contact_number,
      is_blacklisted |-> is_blacklisted ]

Acme == SupplierRow(<<"A","c","m","e">>, <<"1"," ","A"," ","S","t">>, <<"5","5","1">>, FALSE)
Ajax == SupplierRow(<<"A","j","a","x">>, <<"2"," ","B"," ","S","t">>, <<"5","5","2">>, FALSE)
Evil == SupplierRow(<<"E","v","i","l">>, <<"6"," ","E"," ","S","t">>, <<"5","5","6">>, TRUE)

\* contents of supplier_details the runs start from
FullDirectory == {Acme, Ajax, Evil}

BlacklistOnly == {Evil}

\* What a database call can come back with: it failed (ok = FALSE), or it
\* returned.  rows is cursor.fetchone() as <<row>> or <<>> for None, names is
\* the name column of cursor.fetchall().
DbFailed == [ok |-> FALSE, rows |-> <<>>, names |-> <<>>]

DbReturned(rows, names) == [ok |-> TRUE, rows |-> rows, names |-> names]

\* index.py:162-163  SELECT ... WHERE name ILIKE %s, then fetchone(): without an
\* ORDER BY any matching row may come first
SelectSupplier(table, supplier_name) ==
    LET matching == { r \in table : ILike(r.name, supplier_name) }
    IN  IF matching = {} THEN { DbReturned(<<>>, <<>>) }
        ELSE { DbReturned(<<r>>, <<>>) : r \in matching }

\* index.py:188-189  SELECT name ... WHERE is_blacklisted = FALSE ORDER BY name
SelectApproved(table) ==
    DbReturned(<<>>, OrderByName({ r.name : r \in { x \in table : ~x.is_blacklisted } }))

\* faulty variant of RequisitionRow: the supplier_name column is read from the
\* answer to Supplier Preference
RequisitionRow_from_preference(form_data) ==
    [ requester_info         |-> DictGet(form_data, "Requester Information"),
      item_details           |-> DictGet(form_data, "Item/Service Details"),
      business_justification |-> DictGet(form_data, "Business Justification"),
      required_by_date       |-> DictGet(form_data, "Required By Date"),
      approver               |-> DictGet(form_data, "Approval Section"),
      supplier_name          |-> DictGet(form_data, "Supplier Preference"),
      supplier_address       |-> DictGet(form_data, "Supplier Address"),
      supplier_contact       |-> DictGet(form_data, "Supplier Contact") ]

\* index.py:202-210  the row of one INSERT INTO requisitions
RequisitionRow(form_data) ==
    [ requester_info         |-> DictGet(form_data, "Requester Information"),
      item_details           |-> DictGet(form_data, "Item/Service Details"),
      business_justification |-> DictGet(form_data, "Business Justification"),
      required_by_date       |-> DictGet(form_data, "Required By Date"),
      approver               |-> DictGet(form_data, "Approval Section"),
      supplier_name          |-> DictGet(form_data, "Supplier Name"),
      supplier_address       |-> DictGet(form_data, "Supplier Address"),
      supplier_contact       |-> DictGet(form_data, "Supplier Contact") ]

----------------------------------------------------------------------------
(* Session state and the frame of one request                              *)

\* index.py:59  the dict a reset stores
FreshState == [current_field_index |-> 0, form_data |-> <<>>, special_state |-> NoSpecialState]

\* faulty variant of reset_form_state: the cursor restarts at 1
reset_form_state_from_one(us, session_id) ==
    [s \in (DOMAIN us) \cup {session_id} |->
        IF s = session_id THEN [FreshState EXCEPT !.current_field_index = 1] ELSE us[s]]

\* faulty variant of reset_form_state: the whole store is replaced by the one
\* fresh entry
reset_form_state_clears_store(us, session_id) ==
    [s \in {session_id} |-> FreshState]

\* index.py:58-59
reset_form_state(us, session_id) ==
    [s \in (DOMAIN us) \cup {session_id} |-> IF s = session_id THEN FreshState ELSE us[s]]

ErrorText == <<"e","r","r">>

\* The frame of a request: its position (pc) and its locals.  A handler is
\* cut where it waits for the database; pc names the call it waits in.
\*   kept   the dict object a local (current_state, form_data) still refers to
\*          after another request replaced user_state[session_id]: <<>> while
\*          the local and user_state[session_id] are the same object
\*   index_found, special_found, rows_found  what the request found: the
\*          session's current_field_index (-1: no entry) and special_state,
\*          and the number of requisitions rows
NewFrame(us, reqs, session_id, raw) ==
    [ session_id |-> session_id, raw |-> raw, user_input |-> Strip(raw),
      pc |-> "chat", fn |-> "chat", kept |-> <<>>,
      status |-> "", data |-> NoText, row |-> <<>>,
      reply |-> NoReply, replaced |-> FALSE,
      index_found |-> IF session_id \in DOMAIN us
                      THEN us[session_id].current_field_index ELSE -1,
      special_found |-> IF session_id \in DOMAIN us
                        THEN us[session_id].special_state ELSE NoSpecialState,
      rows_found |-> Len(reqs) ]

Config(us, reqs, frame) == [us |-> us, reqs |-> reqs, frame |-> frame]

\* return jsonify(reply)
Return(cfg, us, reply) ==
    Config(us, cfg.reqs, [cfg.frame EXCEPT !.pc = "done", !.reply = reply])

\* return after reset_form_state(session_id)
ReturnReset(cfg, reqs, reply) ==
    Config(reset_form_state(cfg.us, cfg.frame.session_id), reqs,
           [cfg.frame EXCEPT !.pc = "done", !.reply = reply, !.replaced = TRUE])

\* the handler enters a database call
Call(cfg, us, pc, fn) ==
    Config(us, cfg.reqs, [cfg.frame EXCEPT !.pc = pc, !.fn = fn])

----------------------------------------------------------------------------
(* The handlers of index.py.  Each takes the configuration cfg = (user_state, *)
(* requisitions, frame) and gives the configuration at the handler's next     *)
(* database call, or at its return.                                           *)

\* index.py:143-156
ask_next_question(us, session_id) ==
    LET current_state == us[session_id]
        field_index == current_state.current_field_index
    IN  IF field_index < Len(FORM_FIELDS)
        THEN IF Field(field_index) = "Supplier Preference"
             THEN Reply(200, "ask_supplier", Field(field_index), NoText, <<>>, <<>>)
             ELSE Reply(200, "ask", Field(field_index), NoText, <<>>, <<>>)
        ELSE Reply(200, "summary", "", NoText, <<>>, current_state.form_data)

\* index.py:165-170  the part of check_supplier_db after the query
check_supplier_db(supplier_name, db) ==
    IF ~db.ok THEN [status |-> "DB_ERROR", data |-> ErrorText, row |-> <<>>]
    ELSE IF db.rows = <<>> THEN [status |-> "NOT_FOUND", data |-> supplier_name, row |-> <<>>]
    ELSE IF db.rows[1].is_blacklisted
         THEN [status |-> "BLACKLISTED", data |-> db.rows[1].name, row |-> <<>>]
    ELSE [status |-> "OK", data |-> NoText, row |-> db.rows]

\* faulty variant of populate_supplier_data: address and contact exchanged
populate_supplier_data_swapped(current_state, supplier_data) ==
    [current_state EXCEPT !.form_data =
        DictSet(DictSet(DictSet(DictSet(@,
            "Supplier Preference", supplier_data.name),
            "Supplier Name", supplier_data.name),
            "Supplier Address", supplier_data.contact_number),
            "Supplier Contact", supplier_data.address)]

\* index.py:172-177
populate_supplier_data(current_state, supplier_data) ==
    [current_state EXCEPT !.form_data =
        DictSet(DictSet(DictSet(DictSet(@,
            "Supplier Preference", supplier_data.name),
            "Supplier Name", supplier_data.name),
            "Supplier Address", supplier_data.address),
            "Supplier Contact", supplier_data.contact_number)]

\* faulty variant of handle_bad_supplier: the cursor moves on although the supplier
\* was refused
handle_bad_supplier_advances(cfg, status, supplier_name_data) ==
    LET session_id == cfg.frame.session_id
        us == [cfg.us EXCEPT ![session_id].special_state = SUPPLIER_CHECK_STATE,
                             ![session_id].current_field_index = @ + 1]
    IN  Config(us, cfg.reqs,
               [cfg.frame EXCEPT !.pc = "list_suppliers", !.fn = "handle_bad_supplier",
                                 !.status = status, !.data = supplier_name_data])

\* index.py:179-184  handle_bad_supplier up to its query
handle_bad_supplier(cfg, status, supplier_name_data) ==
    LET session_id == cfg.frame.session_id
        us == [cfg.us EXCEPT ![session_id].special_state = SUPPLIER_CHECK_STATE]
    IN  Config(us, cfg.reqs,
               [cfg.frame EXCEPT !.pc = "list_suppliers", !.fn = "handle_bad_supplier",
                                 !.status = status, !.data = supplier_name_data])

\* index.py:185-195  handle_bad_supplier after its query
handle_bad_supplier_listed(cfg, db) ==
    IF db.ok
    THEN Return(cfg, cfg.us,
                Reply(200, IF cfg.frame.status = "BLACKLISTED" THEN "blacklisted" ELSE "not_found",
                      "", cfg.frame.data, db.names, <<>>))
    ELSE Return(cfg, cfg.us, ListErrorReply)

\* faulty variant of supplier_checked: handle_supplier_reselection does not clear
\* special_state when the supplier is accepted
supplier_checked_keeps_special_state(cfg, db) ==
    LET session_id == cfg.frame.session_id
        found == check_supplier_db(cfg.frame.user_input, db)
        reselecting == cfg.frame.fn = "handle_supplier_reselection"
        kept == reselecting /\ cfg.frame.kept # <<>>
        current_state == IF kept THEN cfg.frame.kept[1] ELSE cfg.us[session_id]
        resolved == [populate_supplier_data(current_state, found.row[1]) EXCEPT
                        !.current_field_index = @ + 1]
    IN  IF found.status = "OK"
        THEN IF kept
             THEN Return(Config(cfg.us, cfg.reqs, [cfg.frame EXCEPT !.kept = <<resolved>>]),
                         cfg.us, ask_next_question(cfg.us, session_id))
             ELSE LET us == [cfg.us EXCEPT ![session_id] = resolved]
                  IN  Return(cfg, us, ask_next_question(us, session_id))
        ELSE IF found.status = "DB_ERROR"
             THEN Return(cfg, cfg.us, DatabaseErrorReply(found.data))
        ELSE handle_bad_supplier(cfg, found.status, found.data)

\* index.py:107-115 and 125-134  what both supplier handlers do with the
\* result of check_supplier_db.  handle_supplier_reselection works on its
\* local current_state (taken at line 118), handle_supplier_preference on
\* user_state[session_id] as it is now.
supplier_checked(cfg, db) ==
    LET session_id == cfg.frame.session_id
        found == check_supplier_db(cfg.frame.user_input, db)
        reselecting == cfg.frame.fn = "handle_supplier_reselection"
        kept == reselecting /\ cfg.frame.kept # <<>>
        current_state == IF kept THEN cfg.frame.kept[1] ELSE cfg.us[session_id]
        resolved == [populate_supplier_data(current_state, found.row[1]) EXCEPT
                        !.special_state = IF reselecting THEN NoSpecialState ELSE @,
                        !.current_field_index = @ + 1]
    IN  IF found.status = "OK"
        THEN IF kept
             THEN Return(Config(cfg.us, cfg.reqs, [cfg.frame EXCEPT !.kept = <<resolved>>]),
                         cfg.us, ask_next_question(cfg.us, session_id))
             ELSE LET us == [cfg.us EXCEPT ![session_id] = resolved]
                  IN  Return(cfg, us, ask_next_question(us, session_id))
        ELSE IF found.status = "DB_ERROR"
             THEN Return(cfg, cfg.us, DatabaseErrorReply(found.data))
        ELSE handle_bad_supplier(cfg, found.status, found.data)

\* faulty variant of handle_supplier_preference: a skip moves on without storing
\* an answer
handle_supplier_preference_skips_silently(cfg) ==
    LET session_id == cfg.frame.session_id
    IN  IF Lower(cfg.frame.user_input) \in SkipWords
        THEN LET us == [cfg.us EXCEPT ![session_id].current_field_index = @ + 1]
             IN  Return(cfg, us, ask_next_question(us, session_id))
        ELSE Call(cfg, cfg.us, "check_supplier_db", "handle_supplier_preference")

\* index.py:101-106  handle_supplier_preference up to check_supplier_db
handle_supplier_preference(cfg) ==
    LET session_id == cfg.frame.session_id
    IN  IF Lower(cfg.frame.user_input) \in SkipWords
        THEN LET us == [cfg.us EXCEPT
                          ![session_id].form_data = DictSet(@, "Supplier Preference", NotApplicable),
                          ![session_id].current_field_index = @ + 1]
             IN  Return(cfg, us, ask_next_question(us, session_id))
        ELSE Call(cfg, cfg.us, "check_supplier_db", "handle_supplier_preference")

\* faulty variant of handle_supplier_reselection: the skip words are compared without
\* lower()
handle_supplier_reselection_case_sensitive(cfg) ==
    LET session_id == cfg.frame.session_id
    IN  IF cfg.frame.user_input \in SkipWords
        THEN LET us == [cfg.us EXCEPT
                          ![session_id].form_data = DictSet(@, "Supplier Preference", NotApplicable),
                          ![session_id].special_state = NoSpecialState,
                          ![session_id].current_field_index = @ + 1]
             IN  Return(cfg, us, ask_next_question(us, session_id))
        ELSE Call(cfg, cfg.us, "check_supplier_db", "handle_supplier_reselection")

\* index.py:117-124  handle_supplier_reselection up to check_supplier_db
handle_supplier_reselection(cfg) ==
    LET session_id == cfg.frame.session_id
    IN  IF Lower(cfg.frame.user_input) \in SkipWords
        THEN LET us == [cfg.us EXCEPT
                          ![session_id].form_data = DictSet(@, "Supplier Preference", NotApplicable),
                          ![session_id].special_state = NoSpecialState,
                          ![session_id].current_field_index = @ + 1]
             IN  Return(cfg, us, ask_next_question(us, session_id))
        ELSE Call(cfg, cfg.us, "check_supplier_db", "handle_supplier_reselection")

\* index.py:197-200  save_form up to get_db_connection()
save_form(cfg) == Call(cfg, cfg.us, "connect", "save_form")

\* index.py:200-210  connected: the eight values are read from the local
\* form_data and sent
save_form_connected(cfg, db) ==
    LET form_data == IF cfg.frame.kept # <<>>
                     THEN cfg.frame.kept[1].form_data
                     ELSE cfg.us[cfg.frame.session_id].form_data
    IN  IF db.ok
        THEN Config(cfg.us, cfg.reqs,
                    [cfg.frame EXCEPT !.pc = "insert", !.row = <<RequisitionRow(form_data)>>])
        ELSE Return(cfg, cfg.us, SaveErrorReply)

\* faulty variant of save_form_inserted: the session is reset whether or not the
\* INSERT succeeded
save_form_inserted_resets_anyway(cfg, db) ==
    IF db.ok
    THEN ReturnReset(cfg, Append(cfg.reqs, cfg.frame.row[1]), SavedReply)
    ELSE ReturnReset(cfg, cfg.reqs, SaveErrorReply)

\* faulty variant of save_form_inserted: after the INSERT only the cursor is set
\* back, the answers stay
save_form_inserted_keeps_answers(cfg, db) ==
    IF db.ok
    THEN Config([cfg.us EXCEPT ![cfg.frame.session_id].current_field_index = 0],
                Append(cfg.reqs, cfg.frame.row[1]),
                [cfg.frame EXCEPT !.pc = "done", !.reply = SavedReply])
    ELSE Return(cfg, cfg.us, SaveErrorReply)

\* index.py:200-215  the INSERT committed or failed
save_form_inserted(cfg, db) ==
    IF db.ok
    THEN ReturnReset(cfg, Append(cfg.reqs, cfg.frame.row[1]), SavedReply)
    ELSE Return(cfg, cfg.us, SaveErrorReply)

\* faulty variant of handle_form_confirmation: the comparison is inverted
handle_form_confirmation_inverted(cfg) ==
    IF Lower(cfg.frame.user_input) # SaveWord
    THEN save_form(cfg)
    ELSE ReturnReset(cfg, cfg.reqs, StartOverReply)

\* index.py:136-141
handle_form_confirmation(cfg) ==
    IF Lower(cfg.frame.user_input) = SaveWord
    THEN save_form(cfg)
    ELSE ReturnReset(cfg, cfg.reqs, StartOverReply)

\* faulty variant of process_current_field: the answer is stored in lower case
process_current_field_stores_lowered(cfg) ==
    LET session_id == cfg.frame.session_id
        current_state == cfg.us[session_id]
        current_field_name == Field(current_state.current_field_index)
    IN  IF current_field_name = "Supplier Preference"
        THEN handle_supplier_preference(cfg)
        ELSE LET us == [cfg.us EXCEPT
                          ![session_id].form_data =
                              DictSet(@, current_field_name, Lower(cfg.frame.user_input)),
                          ![session_id].current_field_index = @ + 1]
             IN  Return(cfg, us, ask_next_question(us, session_id))

\* index.py:90-99
process_current_field(cfg) ==
    LET session_id == cfg.frame.session_id
        current_state == cfg.us[session_id]
        current_field_name == Field(current_state.current_field_index)
    IN  IF current_field_name = "Supplier Preference"
        THEN handle_supplier_preference(cfg)
        ELSE LET us == [cfg.us EXCEPT
                          ![session_id].form_data = DictSet(@, current_field_name, cfg.frame.user_input),
                          ![session_id].current_field_index = @ + 1]
             IN  Return(cfg, us, ask_next_question(us, session_id))

\* faulty variant of chat: the restart words are compared without lower()
chat_case_sensitive(us, reqs, session_id, raw) ==
    LET cfg == Config(us, reqs, NewFrame(us, reqs, session_id, raw))
        user_input == cfg.frame.user_input
    IN  IF session_id \notin DOMAIN us \/ user_input \in RestartWords
        THEN ReturnReset(cfg, reqs, HelloReply)
        ELSE IF us[session_id].special_state = SUPPLIER_CHECK_STATE
             THEN handle_supplier_reselection(cfg)
        ELSE IF us[session_id].current_field_index >= Len(FORM_FIELDS)
             THEN handle_form_confirmation(cfg)
        ELSE process_current_field(cfg)

\* index.py:70-84  chat, for a request that carries a message
chat(us, reqs, session_id, raw) ==
    LET cfg == Config(us, reqs, NewFrame(us, reqs, session_id, raw))
        user_input == cfg.frame.user_input
    IN  IF session_id \notin DOMAIN us \/ Lower(user_input) \in RestartWords
        THEN ReturnReset(cfg, reqs, HelloReply)
        ELSE IF us[session_id].special_state = SUPPLIER_CHECK_STATE
             THEN handle_supplier_reselection(cfg)
        ELSE IF us[session_id].current_field_index >= Len(FORM_FIELDS)
             THEN handle_form_confirmation(cfg)
        ELSE process_current_field(cfg)

\* what the database call a frame waits in can come back with
DbResults(cfg, table) ==
    CASE cfg.frame.pc = "check_supplier_db" ->
            {DbFailed} \cup SelectSupplier(table, cfg.frame.user_input)
      [] cfg.frame.pc = "list_suppliers" -> {DbFailed, SelectApproved(table)}
      [] cfg.frame.pc = "connect" -> {DbFailed, DbReturned(<<>>, <<>>)}
      [] cfg.frame.pc = "insert" -> {DbFailed, DbReturned(<<>>, <<>>)}
      [] OTHER -> {}

\* the handler goes on after its database call came back with db
Resume(cfg, db) ==
    CASE cfg.frame.pc = "check_supplier_db" -> supplier_checked(cfg, db)
      [] cfg.frame.pc = "list_suppliers" -> handle_bad_supplier_listed(cfg, db)
      [] cfg.frame.pc = "connect" -> save_form_connected(cfg, db)
      [] cfg.frame.pc = "insert" -> save_form_inserted(cfg, db)

\* a request handled from cfg to its return with no other request in between:
\* every configuration it can end in
RECURSIVE Handled(_, _)
Handled(cfg, table) ==
    IF cfg.frame.pc = "done" THEN {cfg}
    ELSE UNION { Handled(Resume(cfg, db), table) : db \in DbResults(cfg, table) }

----------------------------------------------------------------------------
(* The clients                                                             *)

MsgStart      == <<"s","t","a","r","t">>
MsgRestart    == <<" ","R","e","s","t","a","r","t">>
MsgEdit       == <<"E","D","I","T","\n">>
MsgSave       == <<" ","S","a","v","e"," ">>
MsgSkip       == <<"s","k","i","p">>
MsgNone       == <<"N","o","n","e">>
MsgNoPref     == <<"n","o"," ","p","r","e","f","e","r","e","n","c","e">>
MsgBlank      == <<"B","L","A","N","K"," ">>
MsgAcme       == <<"a","c","m","e">>
MsgEvil       == <<"E","V","I","L">>
MsgZed        == <<"Z","e","d">>
MsgWildcard   == <<"a","%">>

\* A run starts from one scenario: the content of supplier_details and the
\* vocabulary its clients draw their messages from.
Scenario(table, messages) == [table |-> table, vocabulary |-> messages]

\* the clients that only skip and save: their run is followed over two forms
TwoForms == Scenario(FullDirectory, {MsgSave, MsgSkip})

Scenarios ==
    { Scenario(FullDirectory, {MsgStart, MsgSave, MsgSkip, MsgAcme, MsgZed}),
      Scenario(FullDirectory, {MsgRestart, MsgSave, MsgNone, MsgEvil, MsgWildcard}),
      Scenario(FullDirectory, {MsgEdit, MsgSave, MsgNoPref, MsgBlank, MsgEvil}),
      Scenario(BlacklistOnly, {MsgStart, MsgSave, MsgBlank, MsgAcme, MsgWildcard}),
      TwoForms }

\* the clients that fill a form and may send their save twice
DoubleSave == Scenario(FullDirectory, {MsgAcme, MsgSave})

\* the clients of two sessions
TwoSessions == Scenario(FullDirectory, {MsgZed, MsgSkip})

\* the scenarios of the runs with overlapping requests
OverlapScenarios ==
    { DoubleSave,
      TwoSessions,
      Scenario(FullDirectory, {MsgStart, MsgEvil, MsgAcme}) }

Slots == {1, 2}

Idle == [ session_id |-> "", raw |-> <<>>, user_input |-> <<>>,
          pc |-> "idle", fn |-> "", kept |-> <<>>,
          status |-> "", data |-> NoText, row |-> <<>>,
          reply |-> NoReply, replaced |-> FALSE,
          index_found |-> -1, special_found |-> NoSpecialState, rows_found |-> 0 ]

\* what `last` keeps of an answered request
Answered(frame) ==
    [ session_id |-> frame.session_id, raw |-> frame.raw,
      index_found |-> frame.index_found, special_found |-> frame.special_found,
      rows_found |-> frame.rows_found, reply |-> frame.reply ]

Init ==
    /\ user_state = << >>
    /\ requisitions = << >>
    /\ \E scenario \in Scenarios :
          /\ supplier_details = scenario.table
          /\ vocabulary = scenario.vocabulary
    /\ requests = 0
    /\ inflight = [s \in Slots |-> Idle]
    /\ epoch = [us |-> user_state, reqs |-> requisitions, received |-> 0]
    /\ last = Answered(Idle)

----------------------------------------------------------------------------
(* Requests handled one at a time                                          *)

\* the number of requests a run is followed for
RequestLimit ==
    IF vocabulary = TwoForms.vocabulary THEN LongRun
    ELSE IF vocabulary = DoubleSave.vocabulary THEN MaxRequests + 1
    ELSE MaxRequests

\* POST /chat with a message, handled to its reply
Chat(session_id, raw) ==
    /\ requests < RequestLimit
    /\ \E out \in Handled(chat(user_state, requisitions, session_id, raw), supplier_details) :
          /\ user_state' = out.us
          /\ requisitions' = out.reqs
          /\ last' = Answered(out.frame)
    /\ requests' = requests + 1
    /\ UNCHANGED <<supplier_details, vocabulary, inflight, epoch>>

\* index.py:66-68 and 86-88  POST /chat without a usable message: no JSON body
\* or no 'message' key (400), or a message that is not a string (500)
Malformed(session_id, reply) ==
    /\ requests < RequestLimit
    /\ last' = [Answered(NewFrame(user_state, requisitions, session_id, <<>>))
                   EXCEPT !.reply = reply]
    /\ requests' = requests + 1
    /\ UNCHANGED <<user_state, requisitions, supplier_details, vocabulary, inflight, epoch>>

UnexpectedErrorReply == Reply(500, "unexpected_error", "", NoText, <<>>, <<>>)

Next ==
    \/ \E session_id \in Sessions, raw \in vocabulary : Chat(session_id, raw)
    \/ \E session_id \in Sessions, reply \in {BadRequestReply, UnexpectedErrorReply} :
          Malformed(session_id, reply)

Spec == Init /\ [][Next]_vars

----------------------------------------------------------------------------
(* Requests handled by threads that overlap (a threaded WSGI server).  The   *)
(* code takes no lock.  A thread runs from one database call to the next    *)
(* without interruption and is overtaken by other requests while it waits   *)
(* in one; at most the threads of Slots are busy at a time, and a thread     *)
(* that has replied is free for the next request.                           *)

InitOverlap ==
    /\ user_state = << >>
    /\ requisitions = << >>
    /\ \E scenario \in OverlapScenarios :
          /\ supplier_details = scenario.table
          /\ vocabulary = scenario.vocabulary
    /\ requests = 0
    /\ inflight = [s \in Slots |-> Idle]
    /\ epoch = [us |-> user_state, reqs |-> requisitions, received |-> 0]
    /\ last = Answered(Idle)

Waiting(frame) == frame.pc \notin {"idle", "done"}

\* the session keys the clients of the run send
Clients == IF vocabulary = TwoSessions.vocabulary THEN OverlappingSessions ELSE Sessions

\* index.py:59, 118, 199  reset_form_state stores a new dict: a thread that
\* took user_state[session_id] (or its form_data) into a local before keeps
\* the old one
KeepOld(frame, session_id, old) ==
    IF /\ Waiting(frame)
       /\ frame.session_id = session_id
       /\ frame.fn \in {"handle_supplier_reselection", "save_form"}
       /\ frame.kept = << >>
    THEN [frame EXCEPT !.kept = <<old>>]
    ELSE frame

\* the frames after the thread in `slot` went from user_state to out
Frames(slot, out) ==
    [s \in Slots |->
        IF s = slot THEN out.frame
        ELSE IF out.frame.replaced /\ out.frame.session_id \in DOMAIN user_state
             THEN KeepOld(inflight[s], out.frame.session_id, user_state[out.frame.session_id])
        ELSE inflight[s]]

\* a free thread (the first of them) takes a /chat request and runs chat() to
\* its first database call, or to its reply
Receive(slot, session_id, raw) ==
    /\ requests < RequestLimit
    /\ ~Waiting(inflight[slot])
    /\ \A busy \in Slots : busy < slot => Waiting(inflight[busy])
    /\ LET out == chat(user_state, requisitions, session_id, raw)
       IN  /\ user_state' = out.us
           /\ requisitions' = out.reqs
           /\ inflight' = Frames(slot, out)
           /\ last' = IF out.frame.pc = "done" THEN Answered(out.frame) ELSE last
    /\ epoch' = IF \A s \in Slots : ~Waiting(inflight[s])
                THEN [us |-> user_state, reqs |-> requisitions, received |-> 1]
                ELSE [epoch EXCEPT !.received = @ + 1]
    /\ requests' = requests + 1
    /\ UNCHANGED <<supplier_details, vocabulary>>

\* the database call a thread waits in comes back, and the thread runs on to
\* its next database call or to its reply
DbReturn(slot) ==
    /\ Waiting(inflight[slot])
    /\ LET cfg == Config(user_state, requisitions, inflight[slot])
       IN  \E db \in DbResults(cfg, supplier_details) :
              LET out == Resume(cfg, db)
              IN  /\ user_state' = out.us
                  /\ requisitions' = out.reqs
                  /\ inflight' = Frames(slot, out)
                  /\ last' = IF out.frame.pc = "done" THEN Answered(out.frame) ELSE last
    /\ UNCHANGED <<supplier_details, vocabulary, requests, epoch>>

NextOverlap ==
    \/ \E slot \in Slots, session_id \in Clients, raw \in vocabulary :
          Receive(slot, session_id, raw)
    \/ \E slot \in Slots : DbReturn(slot)

SpecOverlap == InitOverlap /\ [][NextOverlap]_vars

----------------------------------------------------------------------------
(* Vocabulary of the properties.  In a step of Spec that answers a message, *)
(* the unprimed variables are the state the request found, the primed ones  *)
(* the state it left, and last' is the request with its reply.              *)

N == Len(FORM_FIELDS)

\* this step answers a /chat message
Answering ==
    /\ requests' = requests + 1
    /\ last'.reply.kind \notin {"bad_request", "unexpected_error"}

Sid == last'.session_id

\* the message as the rules compare it: trimmed, in lower case
Said == Lower(Strip(last'.raw))

Known == Sid \in DOMAIN user_state

Cursor == user_state[Sid].current_field_index

CursorAfter == user_state'[Sid].current_field_index

Fields == user_state[Sid].form_data

FieldsAfter == user_state'[Sid].form_data

\* CONFIRMING: the session exists and its cursor is at N
Confirming == Known /\ Cursor = N

\* the initial state of a session: cursor 0, nothing collected, no special state
IsInitial(state) ==
    /\ state.current_field_index = 0
    /\ state.form_data = << >>
    /\ state.special_state = NoSpecialState

\* (the message text of) the last message, as the rules compare it
LastSaid == Lower(Strip(last.raw))

----------------------------------------------------------------------------
\* C1: a requisition is persisted only by a message equal to "save" (trimmed,
\* any case) received in CONFIRMING (cursor = N = 6), and then exactly one row
\* is added; in CONFIRMING any other message persists nothing and leaves the
\* session in the initial state; in no other state does a step persist.
C1_SaveOnlyWhenConfirming ==
    [][ /\ requisitions' # requisitions =>
              /\ Answering /\ Confirming /\ Said = SaveWord
              /\ Len(requisitions') = Len(requisitions) + 1
        /\ (Answering /\ Confirming /\ Said # SaveWord) =>
              /\ requisitions' = requisitions
              /\ IsInitial(user_state'[Sid])
      ]_vars

\* C1 witness: a message that is "save" only after trimming and lowering was
\* received at cursor 6 and one row is persisted
C1_Witness ==
    /\ last.reply.kind = "saved"
    /\ last.index_found = N
    /\ last.raw # SaveWord
    /\ Len(requisitions) = last.rows_found + 1

\* C2: a "save" in CONFIRMING either persists the row of the collected fields
\* and resets the session, or persists nothing and leaves the session's state
\* exactly as it was, and then a further "save" can persist that same form.
C2_SaveIsAtomic ==
    [][ (Answering /\ Confirming /\ Said = SaveWord) =>
           \/ /\ last'.reply.kind = "saved"
              /\ requisitions' = Append(requisitions, RequisitionRow(Fields))
              /\ IsInitial(user_state'[Sid])
           \/ /\ last'.reply.kind = "save_error"
              /\ requisitions' = requisitions
              /\ user_state'[Sid] = user_state[Sid]
              /\ \E retry \in Handled(chat(user_state', requisitions', Sid, last'.raw),
                                      supplier_details) :
                    /\ retry.frame.reply.kind = "saved"
                    /\ retry.reqs = Append(requisitions, RequisitionRow(Fields))
      ]_vars

\* C2 witness: a save failed in CONFIRMING and the session is still there with
\* its six answers
C2_Witness ==
    /\ last.reply.kind = "save_error"
    /\ last.index_found = N
    /\ user_state[last.session_id].current_field_index = N
    /\ Len(user_state[last.session_id].form_data) >= N
    /\ requisitions = << >>

\* C3: a message that is start, restart or edit (trimmed, any case) is answered
\* with the first field's prompt and leaves the session in the initial state,
\* whatever state it found; it is not stored, not looked up and saves nothing.
C3_RestartAlwaysResets ==
    [][ (Answering /\ Said \in RestartWords) =>
           /\ last'.reply = HelloReply
           /\ last'.reply.field = FORM_FIELDS[1]
           /\ IsInitial(user_state'[Sid])
           /\ requisitions' = requisitions
      ]_vars

\* C3 witness: a restart word written with capitals or blanks was received in
\* CONFIRMING and the session is in the initial state
C3_Witness ==
    /\ LastSaid \in RestartWords
    /\ last.raw \notin RestartWords
    /\ last.index_found = N
    /\ IsInitial(user_state[last.session_id])

----------------------------------------------------------------------------
(* Supplier resolution                                                     *)

SupplierKeys == {"Supplier Preference", "Supplier Name", "Supplier Address", "Supplier Contact"}

DerivedKeys == {"Supplier Name", "Supplier Address", "Supplier Contact"}

\* the request found the session resolving Supplier Preference: COLLECTING at
\* that field, or AWAITING_SUPPLIER_RESOLUTION; and it is no restart
ResolvingSupplier ==
    /\ Known
    /\ Said \notin RestartWords
    /\ \/ user_state[Sid].special_state = SUPPLIER_CHECK_STATE
       \/ Cursor < N /\ Field(Cursor) = "Supplier Preference"

\* the directory records an input names: equal to the name up to letter case
Named(input) == { r \in supplier_details : Lower(r.name) = Lower(input) }

\* the names of the non-blacklisted suppliers
ApprovedNames == { r.name : r \in { x \in supplier_details : ~x.is_blacklisted } }

ListsApproved(reply) ==
    /\ Len(reply.suppliers) = Cardinality(ApprovedNames)
    /\ { reply.suppliers[i] : i \in DOMAIN reply.suppliers } = ApprovedNames

\* the keys of `after` other than `written` are those of `before`, unchanged
OnlyWritten(before, after, written) ==
    /\ DictKeys(after) \ written = DictKeys(before) \ written
    /\ \A k \in DictKeys(before) \ written : DictGet(after, k) = DictGet(before, k)

\* C4: while Supplier Preference is resolved, an input that names no
\* non-blacklisted directory record (and is no skip word) does not advance the
\* cursor, and the reply carries the full list of non-blacklisted names.
\* Stated for the requests the directory answered (a reply with status 200).
C4_BadSupplierNeverAdvances ==
    [][ ( /\ Answering /\ ResolvingSupplier
          /\ Said \notin SkipWords
          /\ \A r \in Named(Strip(last'.raw)) : r.is_blacklisted
          /\ last'.reply.status = 200 ) =>
           /\ CursorAfter = Cursor
           /\ last'.reply.kind \in {"not_found", "blacklisted"}
           /\ ListsApproved(last'.reply)
      ]_vars

\* C5: while Supplier Preference is resolved, an input that matches a
\* non-blacklisted directory record writes exactly the four supplier keys, with
\* that record's name, name, address and contact, changes no other key and
\* advances the cursor by exactly 1; a name equal to such a record's up to case
\* is resolved whenever the lookup returns.
C5_GoodSupplierPopulatesFourKeys ==
    [][ ( /\ Answering /\ ResolvingSupplier /\ Said \notin SkipWords ) =>
           /\ CursorAfter # Cursor =>
                 /\ CursorAfter = Cursor + 1
                 /\ \E r \in supplier_details :
                       /\ ILike(r.name, Strip(last'.raw))
                       /\ ~r.is_blacklisted
                       /\ DictGet(FieldsAfter, "Supplier Preference") = <<r.name>>
                       /\ DictGet(FieldsAfter, "Supplier Name") = <<r.name>>
                       /\ DictGet(FieldsAfter, "Supplier Address") = <<r.address>>
                       /\ DictGet(FieldsAfter, "Supplier Contact") = <<r.contact_number>>
                 /\ OnlyWritten(Fields, FieldsAfter, SupplierKeys)
           /\ ( /\ \E r \in Named(Strip(last'.raw)) : ~r.is_blacklisted
                /\ last'.reply.kind # "database_error" ) =>
                 CursorAfter = Cursor + 1
      ]_vars

\* C5 witness: a name differing from the directory's in case was resolved and
\* the session holds the four supplier keys at the next field
C5_Witness ==
    /\ last.index_found = FORM_FIELDS_SupplierIndex
    /\ last.reply.kind = "ask"
    /\ Named(Strip(last.raw)) # {}
    /\ \A r \in supplier_details : r.name # Strip(last.raw)
    /\ SupplierKeys \subseteq DictKeys(user_state[last.session_id].form_data)
    /\ user_state[last.session_id].current_field_index = last.index_found + 1

\* C6: while Supplier Preference is resolved, in COLLECTING or in
\* AWAITING_SUPPLIER_RESOLUTION, a skip word (any case) writes only
\* Supplier Preference = "N/A", leaves no derived supplier key, advances the
\* cursor by exactly 1, and is answered with status 200 whatever the
\* database does: it makes no lookup.
C6_SkipWritesOnlyNotApplicable ==
    [][ ( /\ Answering /\ ResolvingSupplier /\ Said \in SkipWords ) =>
           /\ DictGet(FieldsAfter, "Supplier Preference") = <<NotApplicable>>
           /\ OnlyWritten(Fields, FieldsAfter, {"Supplier Preference"})
           /\ DictKeys(FieldsAfter) \cap DerivedKeys = {}
           /\ CursorAfter = Cursor + 1
           /\ last'.reply.status = 200
           /\ last'.reply.kind \in {"ask", "summary"}
      ]_vars

\* C6 witness: a skip word written with capitals was received in
\* AWAITING_SUPPLIER_RESOLUTION and the field is "N/A"
C6_Witness ==
    /\ LastSaid \in SkipWords
    /\ Strip(last.raw) \notin SkipWords
    /\ last.special_found = SUPPLIER_CHECK_STATE
    /\ DictGet(user_state[last.session_id].form_data, "Supplier Preference") = <<NotApplicable>>
    /\ user_state[last.session_id].current_field_index = last.index_found + 1

----------------------------------------------------------------------------
(* The cursor                                                              *)

\* the step lowers the cursor of a session
CursorDecreases(session_id) ==
    /\ session_id \in DOMAIN user_state
    /\ user_state'[session_id].current_field_index
          < user_state[session_id].current_field_index

\* C7 as claimed: the cursor of a session decreases only in a step that
\* answers a restart word or a save, and then it becomes 0.
C7_DecreasesOnlyOnRestartOrSave ==
    [][ \A session_id \in Sessions :
           CursorDecreases(session_id) =>
              /\ Answering /\ Sid = session_id
              /\ Said \in RestartWords \cup {SaveWord}
              /\ user_state'[session_id].current_field_index = 0
      ]_vars

\* C7 as amended: the cursor of a session decreases only in a step that answers
\* a restart word, or a message received in CONFIRMING (a save that succeeds,
\* or any input other than save), and whenever it decreases it becomes 0; in
\* every other step it stays or grows by 1.
C7_DecreasesOnlyOnRestartOrConfirming ==
    [][ \A session_id \in DOMAIN user_state :
           /\ CursorDecreases(session_id) =>
                 /\ Answering /\ Sid = session_id
                 /\ Said \in RestartWords \/ Cursor = N
                 /\ user_state'[session_id].current_field_index = 0
           /\ ~CursorDecreases(session_id) =>
                 user_state'[session_id].current_field_index
                    \in { user_state[session_id].current_field_index,
                          user_state[session_id].current_field_index + 1 }
      ]_vars

\* C7 witness: a message that is neither a restart word nor a save was received
\* in CONFIRMING and the cursor is back at 0
C7_Witness ==
    /\ last.index_found = N
    /\ LastSaid \notin RestartWords \cup {SaveWord}
    /\ last.reply.kind = "start_over"
    /\ user_state[last.session_id].current_field_index = 0

\* C8: every session's cursor is within 0 .. len(FORM_FIELDS) = 6.
C8_CursorInRange ==
    \A session_id \in DOMAIN user_state :
        /\ user_state[session_id].current_field_index >= 0
        /\ user_state[session_id].current_field_index <= Len(FORM_FIELDS)
        /\ Len(FORM_FIELDS) = 6

\* C8 witness: a session stands at the upper end, all six fields answered
C8_Witness ==
    \E session_id \in DOMAIN user_state :
        /\ user_state[session_id].current_field_index = Len(FORM_FIELDS)
        /\ last.session_id = session_id
        /\ last.reply.kind = "summary"

\* C9: when a directory call fails while Supplier Preference is resolved, the
\* reply is an error reply, not the "not found" reply, and the session's state
\* (cursor, collected fields, special state) is what the request found.
C9_DirectoryFailureLeavesState ==
    [][ ( /\ Answering /\ ResolvingSupplier
          /\ last'.reply.kind \in {"database_error", "list_error"} ) =>
           /\ last'.reply.status = 500
           /\ last'.reply.suppliers = << >>
           /\ user_state'[Sid] = user_state[Sid]
      ]_vars

----------------------------------------------------------------------------
(* Overlapping requests                                                    *)

\* what two answered requests left behind
Outcome(us, reqs, reply1, reply2) ==
    [us |-> us, reqs |-> reqs, reply1 |-> reply1, reply2 |-> reply2]

\* the outcomes of handling request a and then request b, one after the
\* other, from the state e
OneAfterTheOther(e, a, b) ==
    UNION { { [us |-> second.us, reqs |-> second.reqs,
               first |-> first.frame.reply, second |-> second.frame.reply] :
              second \in Handled(chat(first.us, first.reqs, b.session_id, b.raw),
                                 supplier_details) } :
            first \in Handled(chat(e.us, e.reqs, a.session_id, a.raw), supplier_details) }

\* the outcomes of the sequential executions of the requests a and b from e
SequentialOutcomes(e, a, b) ==
    { Outcome(o.us, o.reqs, o.first, o.second) : o \in OneAfterTheOther(e, a, b) }
    \cup { Outcome(o.us, o.reqs, o.second, o.first) : o \in OneAfterTheOther(e, b, a) }

\* C10: when two requests of one session key were handled together (and no
\* third request was received meanwhile), the session states, the two replies
\* and the persisted rows are those of one of the two sequential executions of
\* the two requests.
C10_SameSessionSerialized ==
    ( /\ inflight[1].pc = "done" /\ inflight[2].pc = "done"
      /\ inflight[1].session_id = inflight[2].session_id
      /\ epoch.received = 2 ) =>
        Outcome(user_state, requisitions, inflight[1].reply, inflight[2].reply)
            \in SequentialOutcomes(epoch, inflight[1], inflight[2])

----------------------------------------------------------------------------
(* The saved record                                                        *)

\* the eight columns of a requisitions row and the key each is read from
CanonicalKeys ==
    [ requester_info         |-> "Requester Information",
      item_details           |-> "Item/Service Details",
      business_justification |-> "Business Justification",
      required_by_date       |-> "Required By Date",
      approver               |-> "Approval Section",
      supplier_name          |-> "Supplier Name",
      supplier_address       |-> "Supplier Address",
      supplier_contact       |-> "Supplier Contact" ]

\* the schema fields the user answers with free text
FreeTextFields == { FORM_FIELDS[i] : i \in DOMAIN FORM_FIELDS } \ {"Supplier Preference"}

\* the fields collected for the session of this step when the request came
\* (none when the session had no entry)
FieldsFound == IF Known THEN Fields ELSE << >>

\* C11: a successful save appends one row whose eight columns are the values
\* collected_fields held under the eight canonical keys, null for an absent
\* key; and a value under a free-text field is the (trimmed) text of the
\* message answered at that field since the form was last reset: a step
\* changes such a value only by resetting the form or by storing its own
\* message under the field the cursor points to.
C11_RowMatchesCollectedFields ==
    [][ Answering =>
          /\ last'.reply.kind = "saved" =>
                /\ Len(requisitions') = Len(requisitions) + 1
                /\ SubSeq(requisitions', 1, Len(requisitions)) = requisitions
                /\ DOMAIN requisitions'[Len(requisitions')] = DOMAIN CanonicalKeys
                /\ \A column \in DOMAIN CanonicalKeys :
                      requisitions'[Len(requisitions')][column]
                          = DictGet(Fields, CanonicalKeys[column])
          /\ \A k \in FreeTextFields :
                DictGet(FieldsAfter, k) # DictGet(FieldsFound, k) =>
                   \/ FieldsAfter = << >>
                   \/ /\ Known /\ Cursor < N /\ k = Field(Cursor)
                      /\ DictGet(FieldsAfter, k) = << Strip(last'.raw) >>
      ]_vars

\* C11 witness: a form whose supplier was skipped was saved: the row has the
\* five answers and null supplier columns
C11_Witness ==
    /\ last.reply.kind = "saved"
    /\ Len(requisitions) = last.rows_found + 1
    /\ requisitions[Len(requisitions)].supplier_name = << >>
    /\ requisitions[Len(requisitions)].supplier_address = << >>
    /\ requisitions[Len(requisitions)].requester_info # << >>
    /\ requisitions[Len(requisitions)].approver # << >>

----------------------------------------------------------------------------
(* Missing entries and saved sessions                                      *)

\* the initial state of the specification: COLLECTING, cursor 0, nothing
\* collected
InitialEntry == [current_field_index |-> 0, form_data |-> << >>, special_state |-> NoSpecialState]

\* the session store with no entry for session_id
WithoutEntry(us, session_id) == [s \in (DOMAIN us) \ {session_id} |-> us[s]]

\* the session store with session_id in the initial state
WithInitialEntry(us, session_id) ==
    [s \in (DOMAIN us) \cup {session_id} |-> IF s = session_id THEN InitialEntry ELSE us[s]]

\* the replies and resulting states of handling raw for session_id from us
StepOutcomes(us, session_id, raw) ==
    { [reply |-> out.frame.reply, state |-> out.us[session_id], reqs |-> out.reqs] :
        out \in Handled(chat(us, requisitions, session_id, raw), supplier_details) }

\* the session the last request left reset by a successful save
JustSaved(session_id) == last.reply.kind = "saved" /\ last.session_id = session_id

\* C12 as claimed: for every input, a key with no entry, a key just reset by a
\* save and a key in the initial state give the same reply and resulting state.
C12_MissingSavedInitialAlike ==
    \A session_id \in Sessions, raw \in vocabulary :
        /\ StepOutcomes(WithoutEntry(user_state, session_id), session_id, raw)
              = StepOutcomes(WithInitialEntry(user_state, session_id), session_id, raw)
        /\ JustSaved(session_id) =>
              StepOutcomes(user_state, session_id, raw)
                 = StepOutcomes(WithInitialEntry(user_state, session_id), session_id, raw)

\* C12 as amended: a key just reset by a save is in the initial state and
\* gives, for every input, the reply and resulting state of a key in the
\* initial state.  A key with no entry is different: its first message,
\* whatever it says, is not stored; it creates the entry in the initial state
\* and is answered with the first field's prompt, which is what a key in the
\* initial state gives only for a restart word.
C12_SavedIsInitialMissingIsGreeted ==
    \A session_id \in Sessions, raw \in vocabulary :
        /\ JustSaved(session_id) =>
              /\ session_id \in DOMAIN user_state
              /\ user_state[session_id] = InitialEntry
              /\ StepOutcomes(user_state, session_id, raw)
                    = StepOutcomes(WithInitialEntry(user_state, session_id), session_id, raw)
        /\ StepOutcomes(WithoutEntry(user_state, session_id), session_id, raw)
              = { [reply |-> HelloReply, state |-> InitialEntry, reqs |-> requisitions] }
        /\ ( StepOutcomes(WithoutEntry(user_state, session_id), session_id, raw)
               = StepOutcomes(WithInitialEntry(user_state, session_id), session_id, raw) )
              <=> Lower(Strip(raw)) \in RestartWords

\* C12 witness: the message after a successful save was handled as in the
\* initial state: it is stored as the answer to the first field
C12_Witness ==
    /\ vocabulary = TwoForms.vocabulary
    /\ requests = N + 3
    /\ Len(requisitions) = 1
    /\ last.index_found = 0
    /\ last.reply.kind = "ask"
    /\ user_state[last.session_id].current_field_index = 1
    /\ DictGet(user_state[last.session_id].form_data, Field(0)) = << Strip(last.raw) >>

----------------------------------------------------------------------------
\* C13: a supplier input resolves to a directory record only when it equals
\* that record's name up to letter case; an input that equals no directory
\* name up to case (a partial name, a pattern with % or _) is answered as not
\* found whenever the directory answers.
C13_ExactMatchOnly ==
    [][ ( /\ Answering /\ ResolvingSupplier /\ Said \notin SkipWords ) =>
           /\ CursorAfter # Cursor =>
                 \E r \in Named(Strip(last'.raw)) :
                    DictGet(FieldsAfter, "Supplier Name") = << r.name >>
           /\ ( Named(Strip(last'.raw)) = {} /\ last'.reply.status = 200 ) =>
                 /\ last'.reply.kind = "not_found"
                 /\ CursorAfter = Cursor
      ]_vars

----------------------------------------------------------------------------
(* Sessions side by side                                                   *)

\* the entry of a session in the store: <<state>>, or <<>> when it has none
EntryOf(us, session_id) ==
    IF session_id \in DOMAIN us THEN << us[session_id] >> ELSE << >>

\* the thread in `slot` takes a step of its request: it receives the request
\* or comes back from a database call
Acts(slot) ==
    /\ inflight'[slot] # inflight[slot]
    /\ inflight'[slot].pc # "idle"

----------------------------------------------------------------------------
(* The two supplier handlers                                               *)

\* the session store with session_id's special_state set to `special`
InMode(us, session_id, special) ==
    [us EXCEPT ![session_id].special_state = special]

\* reply, collected fields and cursor of handling raw for session_id from us
SupplierOutcomes(us, session_id, raw) ==
    { [reply |-> out.frame.reply,
       form_data |-> out.us[session_id].form_data,
       current_field_index |-> out.us[session_id].current_field_index] :
        out \in Handled(chat(us, requisitions, session_id, raw), supplier_details) }

\* the request found the session at the Supplier Preference field, in
\* COLLECTING or in AWAITING_SUPPLIER_RESOLUTION
AtSupplierField ==
    /\ Known
    /\ Cursor = FORM_FIELDS_SupplierIndex

\* C15: at the Supplier Preference field, the input of every request gives the
\* same replies, collected fields and cursor whether the session is taken to
\* be in AWAITING_SUPPLIER_RESOLUTION or in COLLECTING; and a request that resolves
\* the field in AWAITING_SUPPLIER_RESOLUTION (a valid supplier or a skip)
\* leaves the session in COLLECTING with the cursor advanced by exactly 1.
C15_ReselectionSameAsPreference ==
    [][ ( Answering /\ AtSupplierField ) =>
           /\ SupplierOutcomes(InMode(user_state, Sid, SUPPLIER_CHECK_STATE), Sid, last'.raw)
                 = SupplierOutcomes(InMode(user_state, Sid, NoSpecialState), Sid, last'.raw)
           /\ ( /\ user_state[Sid].special_state = SUPPLIER_CHECK_STATE
                /\ Said \notin RestartWords
                /\ \/ Said \in SkipWords
                   \/ DictHas(FieldsAfter, "Supplier Name") ) =>
                 /\ user_state'[Sid].special_state = NoSpecialState
                 /\ CursorAfter = Cursor + 1
                 /\ CursorAfter < N
                 /\ last'.reply = ask_next_question(user_state', Sid)
      ]_vars

\* C15 witness: in AWAITING_SUPPLIER_RESOLUTION a directory name was given and
\* resolved: the session is in COLLECTING at the next field with the supplier
C15_Witness ==
    /\ last.special_found = SUPPLIER_CHECK_STATE
    /\ last.index_found = FORM_FIELDS_SupplierIndex
    /\ Named(Strip(last.raw)) # {}
    /\ last.reply.kind = "ask"
    /\ user_state[last.session_id].special_state = NoSpecialState
    /\ user_state[last.session_id].current_field_index = last.index_found + 1
    /\ DictHas(user_state[last.session_id].form_data, "Supplier Name")

----------------------------------------------------------------------------
(* Free-text fields                                                        *)

\* the request found the session in COLLECTING at a field other than
\* Supplier Preference, and it is no restart
AtFreeTextField ==
    /\ Known
    /\ user_state[Sid].special_state = NoSpecialState
    /\ Cursor < N
    /\ Field(Cursor) # "Supplier Preference"
    /\ Said \notin RestartWords

\* the reply is the prompt naming the field of the new cursor, or the summary
\* of the collected fields when the new cursor is N
PromptsNext ==
    IF CursorAfter < N
    THEN /\ last'.reply.kind \in {"ask", "ask_supplier"}
         /\ last'.reply.field = FORM_FIELDS[CursorAfter + 1]
         /\ last'.reply.kind = "ask_supplier" <=> last'.reply.field = "Supplier Preference"
    ELSE /\ last'.reply.kind = "summary"
         /\ last'.reply.summary = FieldsAfter

\* what a free-text step does with the value `stored`
FreeTextStep(stored) ==
    /\ DictGet(FieldsAfter, Field(Cursor)) = << stored >>
    /\ OnlyWritten(Fields, FieldsAfter, {Field(Cursor)})
    /\ CursorAfter = Cursor + 1
    /\ user_state'[Sid].special_state = NoSpecialState
    /\ last'.reply.status = 200
    /\ PromptsNext
    /\ requisitions' = requisitions

\* C16 as claimed: in COLLECTING at a field other than Supplier Preference, an
\* input that is no restart command is stored under the field's name exactly
\* as the message text received, the cursor grows by 1, no other key changes
\* and the reply is the next prompt or, at N, the summary.
C16_StoredVerbatim ==
    [][ ( Answering /\ AtFreeTextField ) => FreeTextStep(last'.raw) ]_vars

\* C16 as amended: the same, with the value stored being the message text
\* without its leading and trailing whitespace (letter case and inner
\* characters kept).
C16_StoredTrimmed ==
    [][ ( Answering /\ AtFreeTextField ) => FreeTextStep(Strip(last'.raw)) ]_vars

\* C16 witness: a message written with capitals and surrounding blanks was
\* answered at a free-text field and is stored trimmed, capitals kept
C16_Witness ==
    /\ last.index_found \in (0 .. N - 1) \ {FORM_FIELDS_SupplierIndex}
    /\ last.special_found = NoSpecialState
    /\ LastSaid \notin RestartWords
    /\ Strip(last.raw) # last.raw
    /\ Lower(Strip(last.raw)) # Strip(last.raw)
    /\ DictGet(user_state[last.session_id].form_data, Field(last.index_found))
          = << Strip(last.raw) >>
    /\ user_state[last.session_id].current_field_index = last.index_found + 1

----------------------------------------------------------------------------
(* Retrying the supplier                                                   *)

\* the request found the session in AWAITING_SUPPLIER_RESOLUTION, and it is no
\* restart
Awaiting ==
    /\ Known
    /\ user_state[Sid].special_state = SUPPLIER_CHECK_STATE
    /\ Said \notin RestartWords

\* the input names no directory record, or only blacklisted ones
UnknownOrBlacklisted ==
    /\ Said \notin SkipWords
    /\ \A r \in Named(Strip(last'.raw)) : r.is_blacklisted

\* the input is a skip word or names a non-blacklisted directory record
SkipOrValid ==
    \/ Said \in SkipWords
    \/ \E r \in Named(Strip(last'.raw)) : ~r.is_blacklisted

\* C17: in AWAITING_SUPPLIER_RESOLUTION, an unknown or blacklisted supplier
\* name leaves the session's entry exactly as it was (same mode, cursor and
\* collected fields, nothing counted), however many came before; and from
\* every such state a valid supplier name or a skip word resolves the field,
\* returns to COLLECTING and advances to the next prompt (whenever the
\* directory answers the lookup).
C17_NoRetryLimit ==
    [][ ( Answering /\ Awaiting ) =>
           /\ UnknownOrBlacklisted => user_state'[Sid] = user_state[Sid]
           /\ ( SkipOrValid /\ last'.reply.kind # "database_error" ) =>
                 /\ CursorAfter = Cursor + 1
                 /\ user_state'[Sid].special_state = NoSpecialState
                 /\ PromptsNext
      ]_vars

----------------------------------------------------------------------------
(* Collected fields and the cursor                                         *)

\* the session state holds an answer for exactly the schema fields before its
\* cursor
AnsweredUpToCursor(state) ==
    /\ state.current_field_index \in 0 .. N
    /\ \A i \in 0 .. N - 1 :
          DictHas(state.form_data, Field(i)) <=> i < state.current_field_index

\* the five columns of a row that come from free-text fields are not null
FreeTextColumnsFilled(row) ==
    \A column \in DOMAIN CanonicalKeys :
        CanonicalKeys[column] \in FreeTextFields => row[column] # << >>

\* C18: with requests handled one at a time, a session at cursor c holds a
\* value for each of fields[0..c-1] and for none of fields[c..5]; a step drops
\* keys only by resetting the form to empty; so at cursor N all six schema
\* fields are present, and every persisted row has non-null values in the five
\* columns that are not derived from the supplier.
C18_FieldsFollowCursor ==
    [][ /\ \A session_id \in DOMAIN user_state' :
              /\ AnsweredUpToCursor(user_state'[session_id])
              /\ user_state'[session_id].current_field_index = N =>
                    \A i \in DOMAIN FORM_FIELDS :
                       DictGet(user_state'[session_id].form_data, FORM_FIELDS[i]) # << >>
        /\ \A session_id \in DOMAIN user_state :
              \/ DictKeys(user_state[session_id].form_data)
                    \subseteq DictKeys(user_state'[session_id].form_data)
              \/ user_state'[session_id] = InitialEntry
        /\ \A i \in DOMAIN requisitions' : FreeTextColumnsFilled(requisitions'[i])
      ]_vars

\* C18 witness: a session whose supplier was skipped stands at cursor N with
\* the six schema fields and no supplier-derived key
C18_Witness ==
    \E session_id \in DOMAIN user_state :
        /\ user_state[session_id].current_field_index = N
        /\ \A i \in DOMAIN FORM_FIELDS : DictHas(user_state[session_id].form_data, FORM_FIELDS[i])
        /\ DictKeys(user_state[session_id].form_data) \cap DerivedKeys = {}
        /\ Len(user_state[session_id].form_data) = N

----------------------------------------------------------------------------
\* C19: in every reachable state, a session whose special_state is
\* AWAITING_SUPPLIER_CHOICE has its cursor at the index of Supplier Preference
\* (4) and no Supplier Preference key in its collected fields; so
\* special_state is never set at cursor N.
C19_AwaitingOnlyAtSupplierField ==
    \A session_id \in DOMAIN user_state :
        user_state[session_id].special_state = SUPPLIER_CHECK_STATE =>
           /\ user_state[session_id].current_field_index = FORM_FIELDS_SupplierIndex
           /\ FORM_FIELDS_SupplierIndex = 4
           /\ ~DictHas(user_state[session_id].form_data, "Supplier Preference")
           /\ user_state[session_id].current_field_index # N

----------------------------------------------------------------------------
(* Saving once                                                             *)

\* C20: a completed form is persisted at most once.  A step that persists a
\* row answers a request that was received in CONFIRMING and leaves the
\* session at cursor 0 with nothing collected, so that the cursor has to be
\* taken through the six fields again before the next row; no other row of
\* the session was persisted since that request was received (where the
\* session is the only one, the rows are as many as the request found); and a
\* "save" answered at cursor 0 persists nothing and is stored as the answer to
\* the first field.
C20_PersistedAtMostOnce ==
    [][ /\ requisitions' # requisitions =>
              /\ Len(requisitions') = Len(requisitions) + 1
              /\ last'.reply.kind = "saved"
              /\ last'.index_found >= N
              /\ user_state'[Sid] = InitialEntry
              /\ DOMAIN user_state = {Sid} => Len(requisitions) = last'.rows_found
        /\ ( /\ Answering /\ last' # last /\ last'.reply.kind # "saved"
             /\ last'.index_found = 0 /\ Said = SaveWord ) =>
              /\ requisitions' = requisitions
              /\ CursorAfter = 1
              /\ DictGet(FieldsAfter, Field(0)) = << Strip(last'.raw) >>
      ]_vars

====
